---------------------------- MODULE Spec2Model ----------------------------
(***************************************************************************)
(* A model of the album builder of album_main.go: the recursive walk of    *)
(* createAlbum, the goroutines of processImages/processImage, the roll-up  *)
(* of image counts and capture-time bounds, the two sorts and the index    *)
(* document writeHtml produces.                                            *)
(*                                                                         *)
(* Strings that the code inspects (file and directory names) are sequences *)
(* of byte values.  A time.Time is a number of ticks since the zero Time   *)
(* (January 1, year 1), so time.Time{} is 0; all times are in one          *)
(* location (goexif parses into time.Local when no maker-note parser is    *)
(* registered, and album_main.go registers none).  Strings that the code   *)
(* only builds and compares as wholes (date and time strings, anchors)     *)
(* are pairs <<text, number>>.                                             *)
(***************************************************************************)
EXTENDS Integers, Sequences, FiniteSets, TLC

(***************************************************************************)
(* Bounds of the model.                                                    *)
(***************************************************************************)
\* The largest capture time an image of the input tree carries, in ticks.
MaxT == 3
\* Ticks per calendar day: two times of one day differ, two days exist.
TicksPerDay == 2
\* The largest number of directories of the input tree, the root included.
MaxDirs == 3
\* The largest number of files in the whole input tree.
MaxFiles == 3
\* The most images of one directory in the runs checked for termination.
MaxBatch == 2

(***************************************************************************)
(* Constants of album_main.go.                                             *)
(***************************************************************************)
\* FutureTime (line 53): after every capture time of the model.
FutureTime == 1000
\* PastTime (line 57): time.Time{}, the zero Time.
PastTime == 0
\* "???" (line 23).
UnknownDateString == <<"???", 0>>
\* The byte '.' that createThumbnail looks for (line 131).
Dot == 46
\* "_thumbnail" (line 136).
ThumbnailMarker == <<95, 116, 104, 117, 109, 98, 110, 97, 105, 108>>
\* "jpeg" and "jpg" (line 116).
JpegSuffix == <<106, 112, 101, 103>>
JpgSuffix == <<106, 112, 103>>

(***************************************************************************)
(* The names of the input trees of the model.                              *)
(***************************************************************************)
\* "a.jpeg", "b.jpg", "a_thumbnail.jpeg", "jpg", "n.txt"
NameA == <<97, Dot>> \o JpegSuffix
NameB == <<98, Dot>> \o JpgSuffix
NameAThumb == <<97>> \o ThumbnailMarker \o <<Dot>> \o JpegSuffix
NameJpg == JpgSuffix
NameTxt == <<110, Dot, 116, 120, 116>>
\* "old", "sub": the names of subdirectories; "root": the input directory.
NameOld == <<111, 108, 100>>
NameSub == <<115, 117, 98>>
NameRoot == <<114, 111, 111, 116>>

\* File names a subdirectory may hold, and file names the root may hold.
PlainNames == {NameA}
FileNames == {NameA, NameB, NameAThumb, NameJpg, NameTxt}
DirNames == {NameOld, NameSub}

\* A directory is the sequence of directory names leading to it from the
\* input directory; the output directory mirrors it under the output path.
Root == <<>>

\* The root may hold any of DirNames, a subdirectory only "sub".
RECURSIVE PathsOfDepth(_)
PathsOfDepth(k) ==
    IF k = 0 THEN {Root}
    ELSE {Append(p, n) : p \in PathsOfDepth(k - 1),
                         n \in IF k = 1 THEN DirNames ELSE {NameSub}}

\* A tree of MaxDirs directories is at most MaxDirs - 1 deep.
AllPaths == UNION {PathsOfDepth(k) : k \in 0..(MaxDirs - 1)}

Parent(p) == SubSeq(p, 1, Len(p) - 1)

IsPrefix(p, q) == Len(p) <= Len(q) /\ SubSeq(q, 1, Len(p)) = p

PrefixClosed(S) == \A p \in S : p = Root \/ Parent(p) \in S

\* The directory trees of the model.
Trees ==
    {S \in SUBSET AllPaths :
        Root \in S /\ PrefixClosed(S) /\ Cardinality(S) <= MaxDirs}

(***************************************************************************)
(* Strings.                                                                *)
(***************************************************************************)
\* strings.HasSuffix
HasSuffix(s, suffix) ==
    /\ Len(suffix) <= Len(s)
    /\ SubSeq(s, Len(s) - Len(suffix) + 1, Len(s)) = suffix

\* strings.LastIndexByte, 0-based as in Go; -1 when c does not occur.
LastIndexByte(s, c) ==
    IF \E i \in 1..Len(s) : s[i] = c
    THEN (CHOOSE i \in 1..Len(s) :
            s[i] = c /\ \A j \in (i + 1)..Len(s) : s[j] # c) - 1
    ELSE -1

\* cmp.Compare on strings: bytewise lexicographic, -1, 0 or +1.
RECURSIVE Compare(_, _)
Compare(a, b) ==
    IF a = <<>> /\ b = <<>> THEN 0
    ELSE IF a = <<>> THEN -1
    ELSE IF b = <<>> THEN 1
    ELSE IF Head(a) < Head(b) THEN -1
    ELSE IF Head(a) > Head(b) THEN 1
    ELSE Compare(Tail(a), Tail(b))

\* isImageFile (lines 115-117).
isImageFile(path) == HasSuffix(path, JpegSuffix) \/ HasSuffix(path, JpgSuffix)

\* The thumbnail's file name (lines 131, 136); createThumbnail dies before
\* it when the name has no '.'.
HasExtension(imageName) == LastIndexByte(imageName, Dot) # -1

ThumbnailName(imageName) ==
    LET dot == LastIndexByte(imageName, Dot)
    IN  SubSeq(imageName, 1, dot) \o ThumbnailMarker
            \o SubSeq(imageName, dot + 1, Len(imageName))

(***************************************************************************)
(* Times.                                                                  *)
(***************************************************************************)
\* time.Time.Compare, Before, After, IsZero
TimeCompare(t, u) == IF t < u THEN -1 ELSE IF t > u THEN 1 ELSE 0
Before(t, u) == t < u
After(t, u) == t > u
IsZero(t) == t = PastTime

\* t.Format(time.DateOnly): the calendar day of t.
FormatDateOnly(t) == <<"date", t \div TicksPerDay>>

\* timeToString (lines 81-86): the full time, or "???".
timeToString(t) ==
    IF t # FutureTime /\ ~IsZero(t) THEN <<"time", t>> ELSE <<"???", 0>>

\* dateToString (lines 88-93).
dateToString(t) ==
    IF t # FutureTime /\ ~IsZero(t) THEN FormatDateOnly(t) ELSE UnknownDateString

\* Album.DateRangeString (lines 106-113): one date string, or two joined by " - ".
DateRangeString(a) ==
    LET minStr == dateToString(a.MinTime)
        maxStr == dateToString(a.MaxTime)
    IN  IF minStr # maxStr THEN <<minStr, maxStr>> ELSE <<minStr>>

\* dateStringToHeaderText (lines 198-203) and dateStringToId (lines 205-210).
dateStringToHeaderText(date) ==
    IF date # UnknownDateString THEN date ELSE <<"Unknown Date", 0>>

dateStringToId(date) ==
    IF date # UnknownDateString THEN date ELSE <<"unknown-date", 0>>

(***************************************************************************)
(* Records: Image (lines 68-72), Album (lines 74-79).  A Thumbnail is      *)
(* kept by its Name; the pixel sizes of a decoded image are not modelled.  *)
(***************************************************************************)
NewImage(name) == [Name |-> name, Thumbnail |-> <<>>, DateTime |-> PastTime]

\* Album{Name: filepath.Base(inputDir), MinTime: FutureTime, MaxTime: PastTime}
\* (line 261).
NewAlbum(inputDir) ==
    [Name |-> IF inputDir = Root THEN NameRoot ELSE inputDir[Len(inputDir)],
     NumImages |-> 0, MinTime |-> FutureTime, MaxTime |-> PastTime]

\* A merge that takes the subalbum's bounds without comparing them.
MergeSubAlbumOverwrite(result, subAlbum) ==
    [result EXCEPT
        !.NumImages = @ + subAlbum.NumImages,
        !.MinTime = subAlbum.MinTime,
        !.MaxTime = subAlbum.MaxTime]

\* The merge of a non-empty subalbum into the running result (lines 275-281).
MergeSubAlbum(result, subAlbum) ==
    [result EXCEPT
        !.NumImages = @ + subAlbum.NumImages,
        !.MinTime = IF After(@, subAlbum.MinTime) THEN subAlbum.MinTime ELSE @,
        !.MaxTime = IF Before(@, subAlbum.MaxTime) THEN subAlbum.MaxTime ELSE @]

\* A merge that lowers MinTime and leaves MaxTime alone.
MergeImageMinOnly(result, image) ==
    IF IsZero(image.DateTime) THEN result
    ELSE [result EXCEPT
            !.MinTime = IF After(result.MinTime, image.DateTime)
                        THEN image.DateTime ELSE @]

\* A merge that does not skip an image whose DateTime is the zero Time.
MergeImageNoSkip(result, image) ==
    [result EXCEPT
        !.MinTime = IF After(@, image.DateTime) THEN image.DateTime ELSE @,
        !.MaxTime = IF Before(@, image.DateTime) THEN image.DateTime ELSE @]

\* The merge of one image's DateTime into the running result (lines 295-303).
MergeImage(result, image) ==
    IF IsZero(image.DateTime) THEN result
    ELSE [result EXCEPT
            !.MinTime = IF After(@, image.DateTime) THEN image.DateTime ELSE @,
            !.MaxTime = IF Before(@, image.DateTime) THEN image.DateTime ELSE @]

\* The loop of lines 294-304 over the images in the order they were received.
RECURSIVE MergeImages(_, _)
MergeImages(result, images) ==
    IF images = <<>> THEN result
    ELSE MergeImages(MergeImage(result, Head(images)), Tail(images))

(***************************************************************************)
(* The sorts of lines 306-317.  slices.SortFunc sorts a slice of fewer     *)
(* than 12 elements by insertion: element i moves left while it compares   *)
(* less than its left neighbour.                                           *)
(***************************************************************************)
\* A comparison by time alone, and a comparison by name alone.
CmpImageNoTieBreak(a, b) == TimeCompare(a.DateTime, b.DateTime)
CmpImageByName(a, b) == Compare(a.Name, b.Name)

\* The comparison of two images (lines 306-311).
CmpImage(a, b) ==
    LET n == TimeCompare(a.DateTime, b.DateTime)
    IN  IF n # 0 THEN n ELSE Compare(a.Name, b.Name)

\* A comparison of two subalbums by name alone.
CmpAlbumByName(a, b) == Compare(a.Name, b.Name)

\* The comparison of two subalbums (lines 312-317).
CmpAlbum(a, b) ==
    LET n == TimeCompare(a.MinTime, b.MinTime)
    IN  IF n # 0 THEN n ELSE Compare(a.Name, b.Name)

\* x inserted into the sorted slice after the last of the positions notLess,
\* the positions of the elements that x does not compare less than.
InsertAfter(sorted, x, notLess) ==
    LET k == IF notLess = {} THEN 0
             ELSE CHOOSE j \in notLess : \A i \in notLess : i <= j
    IN  SubSeq(sorted, 1, k) \o <<x>> \o SubSeq(sorted, k + 1, Len(sorted))

RECURSIVE SortImages(_)
SortImages(images) ==
    IF images = <<>> THEN <<>>
    ELSE LET sorted == SortImages(SubSeq(images, 1, Len(images) - 1))
             x == images[Len(images)]
         IN  InsertAfter(sorted, x,
                {j \in 1..Len(sorted) : CmpImage(x, sorted[j]) >= 0})

RECURSIVE SortAlbums(_)
SortAlbums(subAlbums) ==
    IF subAlbums = <<>> THEN <<>>
    ELSE LET sorted == SortAlbums(SubSeq(subAlbums, 1, Len(subAlbums) - 1))
             x == subAlbums[Len(subAlbums)]
         IN  InsertAfter(sorted, x,
                {j \in 1..Len(sorted) : CmpAlbum(x, sorted[j]) >= 0})

(***************************************************************************)
(* The index document of writeHtml (lines 214-250), as the data the        *)
(* templates are executed on, in the order it is written to the buffer:    *)
(* the head, one entry per subalbum, the "Dates:" links, the image part.   *)
(***************************************************************************)
NoString == <<"", 0>>

\* The heading of a date group (line 235).
Heading(date) ==
    [kind |-> "h2", id |-> dateStringToId(date),
     text |-> dateStringToHeaderText(date), name |-> <<>>, thumbnail |-> <<>>]

\* ImgTemplate on one image (lines 44-47, 237).
ImgEntry(image) ==
    [kind |-> "img", id |-> NoString, text |-> timeToString(image.DateTime),
     name |-> image.Name, thumbnail |-> image.Thumbnail]

\* One link of the "Dates:" index (line 247).
DateLink(date) == [id |-> dateStringToId(date), text |-> dateStringToHeaderText(date)]

\* An image part in which no date is ever remembered as known.
ImageBufNoKnown(images, knownDates) ==
    IF images = <<>> THEN <<>>
    ELSE [k \in 1..(2 * Len(images)) |->
            IF k % 2 = 1 THEN Heading(dateToString(images[(k + 1) \div 2].DateTime))
            ELSE ImgEntry(images[k \div 2])]

\* imageBuf after the loop of lines 230-240, knownDates being the dates seen.
RECURSIVE ImageBuf(_, _)
ImageBuf(images, knownDates) ==
    IF images = <<>> THEN <<>>
    ELSE LET image == Head(images)
             date == dateToString(image.DateTime)
         IN  (IF date \notin knownDates THEN <<Heading(date)>> ELSE <<>>)
                \o <<ImgEntry(image)>>
                \o ImageBuf(Tail(images), knownDates \cup {date})

\* The date of every image, repeated dates included.
DatesNoKnown(images, knownDates) ==
    [i \in 1..Len(images) |-> dateToString(images[i].DateTime)]

\* dates after the loop of lines 230-240.
RECURSIVE Dates(_, _)
Dates(images, knownDates) ==
    IF images = <<>> THEN <<>>
    ELSE LET date == dateToString(Head(images).DateTime)
         IN  (IF date \notin knownDates THEN <<date>> ELSE <<>>)
                \o Dates(Tail(images), knownDates \cup {date})

\* SubAlbumTemplate on one subalbum (lines 41-42, 221).
SubAlbumEntry(subAlbum) ==
    [Name |-> subAlbum.Name, NumImages |-> subAlbum.NumImages,
     DateRangeString |-> DateRangeString(subAlbum)]

\* The bytes writeHtml writes to index.html (lines 216-250).
IndexDocument(album, subAlbums, images) ==
    LET dates == Dates(images, {})
    IN  [head |-> [Name |-> album.Name, NumImages |-> album.NumImages],
         subAlbums |-> [i \in 1..Len(subAlbums) |-> SubAlbumEntry(subAlbums[i])],
         dateLinks |-> IF Len(dates) > 1
                       THEN [i \in 1..Len(dates) |-> DateLink(dates[i])]
                       ELSE <<>>,
         images |-> ImageBuf(images, {})]

(***************************************************************************)
(* The state.                                                              *)
(***************************************************************************)
VARIABLES
    dirs,       \* the directories of the input tree
    files,      \* files[d][name]: the EXIF time of file name of directory d,
                \* PastTime when the file has none that can be read
    existed,    \* the output directories that exist before the run
    outDirs,    \* the output directories that exist
    outFiles,   \* outFiles[<<d, name>>]: the content of a written output file
    html,       \* html[d]: the index.html written for directory d
    stack,      \* the activations of createAlbum, the running one last
    workers,    \* workers[name]: the goroutine processImage of image name
    ch,         \* the channel of processImages
    received,   \* received[d]: the slice processImages returned for d
    albums,     \* albums[d]: the Album createAlbum returned for d
    status,     \* "running", "done" (main returned) or "exit" (os.Exit(1))
    fatal       \* what ended the run, and in which directory

vars == <<dirs, files, existed, outDirs, outFiles, html, stack, workers, ch,
          received, albums, status, fatal>>

NoFatal == [cause |-> "", dir |-> Root]

\* The bytes of a source file, and the bytes of the thumbnail encoded from them.
NoBytes == [kind |-> "", of |-> <<>>]
SourceBytes(d, name) == [kind |-> "original", of |-> <<d, name>>]
ThumbnailBytes(imageBytes) == [kind |-> "thumbnail", of |-> imageBytes.of]

\* The subdirectories of d, by name.
SubDirNames(d) == {p[Len(p)] : p \in {q \in dirs : q # Root /\ Parent(q) = d}}

RECURSIVE SortNames(_)
SortNames(S) ==
    IF S = {} THEN <<>>
    ELSE LET least == CHOOSE n \in S : \A m \in S : Compare(n, m) <= 0
         IN  <<least>> \o SortNames(S \ {least})

\* os.ReadDir (line 262): the entries of d, sorted by file name.
ReadDir(d) == SortNames(DOMAIN files[d] \cup SubDirNames(d))

\* entry.IsDir() (line 271)
IsDir(d, name) == Append(d, name) \in dirs

\* The activation of createAlbum(d, ...) after lines 261-268.
NewFrame(d) ==
    [inputDir |-> d, pc |-> "loop", entries |-> ReadDir(d),
     result |-> NewAlbum(d), imageNames |-> <<>>, subAlbums |-> <<>>,
     images |-> <<>>]

(***************************************************************************)
(* The input trees of the model: up to MaxDirs directories holding up to   *)
(* MaxFiles files; the root may hold any of FileNames, a subdirectory any  *)
(* of PlainNames.  A file that createAlbum selects and createThumbnail     *)
(* accepts has an EXIF time in 1..MaxT, or none.  The output location is   *)
(* fresh, or holds every directory of the tree already.                    *)
(***************************************************************************)
Dated(name) == isImageFile(name) /\ HasExtension(name)

ContentsOver(names) ==
    UNION {{f \in [S -> 0..MaxT] : \A n \in S : ~Dated(n) => f[n] = PastTime} :
            S \in {T \in SUBSET names : Cardinality(T) <= MaxFiles}}

RECURSIVE NumFiles(_, _)
NumFiles(f, D) ==
    IF D = {} THEN 0
    ELSE LET d == CHOOSE e \in D : TRUE
         IN  Cardinality(DOMAIN f[d]) + NumFiles(f, D \ {d})

Init ==
    /\ dirs \in Trees
    /\ \E r \in ContentsOver(FileNames) :
       \E g \in [dirs \ {Root} -> ContentsOver(PlainNames)] :
          /\ files = (Root :> r) @@ g
          /\ NumFiles(files, dirs) <= MaxFiles
    /\ existed \in {{}, dirs}
    /\ outDirs = existed
    /\ outFiles = <<>>
    /\ html = <<>>
    /\ stack = <<NewFrame(Root)>>
    /\ workers = <<>>
    /\ ch = <<>>
    /\ received = <<>>
    /\ albums = <<>>
    /\ status = "running"
    /\ fatal = NoFatal

top == stack[Len(stack)]
SetTop(frame) == [stack EXCEPT ![Len(stack)] = frame]
Running == status = "running"

\* An exit that only notes the failure and lets the run go on.
ExitLater(cause) ==
    /\ status' = status
    /\ fatal' = [cause |-> cause, dir |-> top.inputDir]
    /\ UNCHANGED <<stack, workers, ch>>

\* os.Exit(1) and log.Fatalf: the process is gone, and with it every
\* activation, goroutine and channel; the files written so far stay.
Exit(cause) ==
    /\ status' = "exit"
    /\ fatal' = [cause |-> cause, dir |-> top.inputDir]
    /\ stack' = <<>>
    /\ workers' = <<>>
    /\ ch' = <<>>

(***************************************************************************)
(* createAlbum: the loop over the entries (lines 269-286).                 *)
(***************************************************************************)
\* The entry is a directory that is passed over, not entered.
EnterSubdirSkip ==
    /\ Running /\ top.pc = "loop" /\ top.entries # <<>>
    /\ IsDir(top.inputDir, Head(top.entries))
    /\ stack' = SetTop([top EXCEPT !.entries = Tail(@)])
    /\ UNCHANGED <<dirs, files, existed, outDirs, outFiles, html, workers, ch,
                   received, albums, status, fatal>>

\* The entry is a directory: createAlbum is called on it (line 272).
EnterSubdir ==
    /\ Running /\ top.pc = "loop" /\ top.entries # <<>>
    /\ IsDir(top.inputDir, Head(top.entries))
    /\ stack' = Append(SetTop([top EXCEPT !.entries = Tail(@)]),
                       NewFrame(Append(top.inputDir, Head(top.entries))))
    /\ UNCHANGED <<dirs, files, existed, outDirs, outFiles, html, workers, ch,
                   received, albums, status, fatal>>

\* The entry is a file that isImageFile accepts (lines 283-284).
SelectImage ==
    /\ Running /\ top.pc = "loop" /\ top.entries # <<>>
    /\ ~IsDir(top.inputDir, Head(top.entries))
    /\ isImageFile(Head(top.entries))
    /\ stack' = SetTop([top EXCEPT !.entries = Tail(@),
                                   !.imageNames = Append(@, Head(top.entries))])
    /\ UNCHANGED <<dirs, files, existed, outDirs, outFiles, html, workers, ch,
                   received, albums, status, fatal>>

\* The entry is any other file: nothing is done with it.
SkipEntry ==
    /\ Running /\ top.pc = "loop" /\ top.entries # <<>>
    /\ ~IsDir(top.inputDir, Head(top.entries))
    /\ ~isImageFile(Head(top.entries))
    /\ stack' = SetTop([top EXCEPT !.entries = Tail(@)])
    /\ UNCHANGED <<dirs, files, existed, outDirs, outFiles, html, workers, ch,
                   received, albums, status, fatal>>

\* The directory alone, without its missing parents.
MkdirOnly(d) == outDirs \cup {d}

\* os.MkdirAll (line 288): the directory and every missing parent.
MkdirAll(d) == outDirs \cup {SubSeq(d, 1, k) : k \in 0..Len(d)}

\* After the loop: the output directory is made when there are image names
\* (lines 287-292) and processImages starts one goroutine per name
\* (lines 186-191).
StartImages ==
    /\ Running /\ top.pc = "loop" /\ top.entries = <<>>
    /\ outDirs' = IF Len(top.imageNames) > 0 THEN MkdirAll(top.inputDir)
                  ELSE outDirs
    /\ workers' = [name \in {top.imageNames[i] : i \in 1..Len(top.imageNames)} |->
                    [pc |-> "start", imageBytes |-> NoBytes, result |-> NewImage(name)]]
    /\ ch' = <<>>
    /\ stack' = SetTop([top EXCEPT !.pc = "collect"])
    /\ UNCHANGED <<dirs, files, existed, outFiles, html, received, albums,
                   status, fatal>>

(***************************************************************************)
(* processImage, one goroutine per image (lines 156-182).                  *)
(***************************************************************************)
\* os.ReadFile, readEXIFDateTime and createThumbnail (lines 157-174, 130-153).
\* The run exits when the file cannot be read; a file without a readable EXIF
\* time keeps the zero DateTime; createThumbnail is fatal for a name without
\* '.', and the run exits when the image cannot be decoded, encoded or written.
MakeThumbnail(name) ==
    /\ Running /\ name \in DOMAIN workers /\ workers[name].pc = "start"
    /\ LET imageBytes == SourceBytes(top.inputDir, name)
       IN  \/ /\ Exit("read")
              /\ UNCHANGED outFiles
           \/ /\ ~HasExtension(name)
              /\ Exit("extension")
              /\ UNCHANGED outFiles
           \/ /\ HasExtension(name)
              /\ Exit("thumbnail")
              /\ UNCHANGED outFiles
           \/ /\ HasExtension(name)
              /\ top.inputDir \in outDirs
              /\ outFiles' = (<<top.inputDir, ThumbnailName(name)>> :>
                                ThumbnailBytes(imageBytes)) @@ outFiles
              /\ workers' = [workers EXCEPT ![name] =
                    [pc |-> "copy", imageBytes |-> imageBytes,
                     result |-> [@.result EXCEPT
                                    !.DateTime = files[top.inputDir][name],
                                    !.Thumbnail = ThumbnailName(name)]]]
              /\ UNCHANGED <<status, fatal, stack, ch>>
    /\ UNCHANGED <<dirs, files, existed, outDirs, html, received, albums>>

\* A channel with room for one result fewer than there are image names.
ChanCapOneShort(frame) == Len(frame.imageNames) - 1

\* The capacity of the channel of processImages: make(chan Image, n) (line 188).
ChanCap(frame) == Len(frame.imageNames)

\* The copy of the original and the send of the result (lines 175-181).  The
\* send waits while the channel is full.
CopyImage(name) ==
    /\ Running /\ name \in DOMAIN workers /\ workers[name].pc = "copy"
    /\ \/ /\ top.inputDir \in outDirs
          /\ Len(ch) < ChanCap(top)
          /\ outFiles' = (<<top.inputDir, name>> :> workers[name].imageBytes)
                            @@ outFiles
          /\ ch' = Append(ch, workers[name].result)
          /\ workers' = [workers EXCEPT ![name] = [@ EXCEPT !.pc = "done"]]
          /\ UNCHANGED <<status, fatal, stack>>
       \/ /\ Exit("copy")
          /\ UNCHANGED outFiles
    /\ UNCHANGED <<dirs, files, existed, outDirs, html, received, albums>>

(***************************************************************************)
(* processImages: the collection of the results (lines 192-195).           *)
(***************************************************************************)
\* A receive that leaves the result in the channel.
ReceiveImageNoPop ==
    /\ Running /\ top.pc = "collect"
    /\ Len(top.images) < Len(top.imageNames)
    /\ ch # <<>>
    /\ stack' = SetTop([top EXCEPT !.images = Append(@, Head(ch))])
    /\ UNCHANGED <<dirs, files, existed, outDirs, outFiles, html, workers, ch,
                   received, albums, status, fatal>>

ReceiveImage ==
    /\ Running /\ top.pc = "collect"
    /\ Len(top.images) < Len(top.imageNames)
    /\ ch # <<>>
    /\ stack' = SetTop([top EXCEPT !.images = Append(@, Head(ch))])
    /\ ch' = Tail(ch)
    /\ UNCHANGED <<dirs, files, existed, outDirs, outFiles, html, workers,
                   received, albums, status, fatal>>

(***************************************************************************)
(* createAlbum after processImages returned: the merge of the images, the  *)
(* sorts, writeHtml and the return (lines 294-320); then, in the caller,   *)
(* the merge of the returned Album (lines 273-282), or in main the end of  *)
(* the run (lines 325-326).                                                *)
(***************************************************************************)
\* A result that leaves out the directory's own images.
FinalAlbumNoCount(frame) == MergeImages(frame.result, frame.images)

\* result after lines 294-305.
FinalAlbum(frame) ==
    [MergeImages(frame.result, frame.images) EXCEPT
        !.NumImages = @ + Len(frame.images)]

\* The caller's activation when every subalbum is kept.
AfterCallKeepAll(caller, subAlbum) ==
    [caller EXCEPT !.subAlbums = Append(@, subAlbum),
                   !.result = MergeSubAlbum(@, subAlbum)]

\* The caller's activation after lines 273-282.
AfterCall(caller, subAlbum) ==
    IF subAlbum.NumImages > 0
    THEN [caller EXCEPT !.subAlbums = Append(@, subAlbum),
                        !.result = MergeSubAlbum(@, subAlbum)]
    ELSE caller

FinishAlbum ==
    /\ Running /\ top.pc = "collect"
    /\ Len(top.images) = Len(top.imageNames)
    /\ LET result == FinalAlbum(top)
           images == SortImages(top.images)
           subAlbums == SortAlbums(top.subAlbums)
       IN  \/ \* os.WriteFile fails: the output directory does not exist.
              /\ top.inputDir \notin outDirs
              /\ Exit("index")
              /\ UNCHANGED <<html, albums>>
           \/ /\ top.inputDir \in outDirs
              /\ html' = (top.inputDir :> IndexDocument(result, subAlbums, images))
                            @@ html
              /\ albums' = (top.inputDir :> result) @@ albums
              /\ IF Len(stack) = 1
                 THEN /\ status' = "done"
                      /\ stack' = <<>>
                 ELSE /\ status' = status
                      /\ stack' = [SubSeq(stack, 1, Len(stack) - 1) EXCEPT
                            ![Len(stack) - 1] = AfterCall(@, result)]
              /\ fatal' = fatal
              /\ workers' = <<>>
              /\ ch' = <<>>
    /\ received' = (top.inputDir :> top.images) @@ received
    /\ UNCHANGED <<dirs, files, existed, outDirs, outFiles>>

Next ==
    \/ EnterSubdir
    \/ SelectImage
    \/ SkipEntry
    \/ StartImages
    \/ \E name \in FileNames : MakeThumbnail(name)
    \/ \E name \in FileNames : CopyImage(name)
    \/ ReceiveImage
    \/ FinishAlbum

Spec == Init /\ [][Next]_vars

\* The runs over directories of at most MaxBatch images in which every
\* capture time that is present is the same one: whether a run ends does not
\* depend on the capture times.
FairInit ==
    /\ Init
    /\ \A d \in dirs : \A n \in DOMAIN files[d] : files[d][n] \in {PastTime, 1}
    /\ \A d \in dirs :
          Cardinality({n \in DOMAIN files[d] : isImageFile(n)}) <= MaxBatch

\* The Go scheduler runs every goroutine that can take a step: while the run
\* has a step to take, a step is taken.
FairSpec == FairInit /\ [][Next]_vars /\ WF_vars(Next)

(***************************************************************************)
(* What the input tree holds, for the statements below.                    *)
(***************************************************************************)
\* The files of d that createAlbum selects as images.
ImageNamesOf(d) == {n \in DOMAIN files[d] : isImageFile(n)}

\* The directories of the subtree of d, and the subdirectories of d.
Subtree(d) == {e \in dirs : IsPrefix(d, e)}
Children(d) == {e \in dirs : e # Root /\ Parent(e) = d}

RECURSIVE SumOver(_, _)
SumOver(f, D) ==
    IF D = {} THEN 0
    ELSE LET d == CHOOSE e \in D : TRUE IN f[d] + SumOver(f, D \ {d})

\* The number of image files in the subtree of d.
SubtreeCount(d) ==
    SumOver([e \in Subtree(d) |-> Cardinality(ImageNamesOf(e))], Subtree(d))

\* The capture times present in the subtree of d.
SubtreeTimes(d) ==
    UNION {{files[e][n] : n \in ImageNamesOf(e)} : e \in Subtree(d)} \ {PastTime}

Least(T) == CHOOSE t \in T : \A u \in T : t <= u
Greatest(T) == CHOOSE t \in T : \A u \in T : t >= u

C2_CountConservation ==
    \A d \in DOMAIN albums :
        /\ Children(d) \subseteq DOMAIN albums
        /\ albums[d].NumImages =
              Cardinality(ImageNamesOf(d))
                + SumOver([c \in Children(d) |->
                            IF albums[c].NumImages > 0 THEN albums[c].NumImages
                            ELSE 0], Children(d))
        /\ albums[d].NumImages = SubtreeCount(d)

\* The root's Album counts images of its own, those of a subdirectory, and
\* nothing for a subdirectory without images.
C2_Witness ==
    /\ status = "done"
    /\ Cardinality(ImageNamesOf(Root)) = 2
    /\ albums[Root].NumImages = 3
    /\ \E c \in Children(Root) : albums[c].NumImages = 0

(***************************************************************************)
(* C3: built into a fresh output location, a subdirectory whose subtree    *)
(* holds no image file does not end the run, gets no output directory, and *)
(* has no entry in its parent's index document.                            *)
(***************************************************************************)
C3_EmptySubtreeInvisible ==
    existed = {} =>
        \A d \in dirs \ {Root} :
            SubtreeCount(d) = 0 =>
                /\ ~(status = "exit" /\ fatal.dir = d)
                /\ d \notin outDirs
                /\ Parent(d) \in DOMAIN html =>
                      \A i \in 1..Len(html[Parent(d)].subAlbums) :
                          html[Parent(d)].subAlbums[i].Name # d[Len(d)]

(***************************************************************************)
(* C4: the images and the subalbums of every index document are in the     *)
(* order the document has when the results arrive in name order and the    *)
(* subalbums are sorted from the opposite order: the order depends on the  *)
(* input tree alone, not on the order in which the workers finish.         *)
(***************************************************************************)
\* The result processImage reports for image n of d.
ExpectedImage(d, n) ==
    [Name |-> n, Thumbnail |-> ThumbnailName(n), DateTime |-> files[d][n]]

ImagesInNameOrder(d) ==
    LET names == SortNames(ImageNamesOf(d))
    IN  [i \in 1..Len(names) |-> ExpectedImage(d, names[i])]

\* The Albums of the subdirectories of d that have images, last name first.
SubAlbumsInReverseNameOrder(d) ==
    LET names == SortNames({c[Len(c)] : c \in {e \in Children(d) :
                                                albums[e].NumImages > 0}})
    IN  [i \in 1..Len(names) |-> albums[Append(d, names[Len(names) + 1 - i])]]

C4_DeterministicOrder ==
    \A d \in DOMAIN html :
        /\ html[d].images = ImageBuf(SortImages(ImagesInNameOrder(d)), {})
        /\ LET subAlbums == SortAlbums(SubAlbumsInReverseNameOrder(d))
           IN  html[d].subAlbums =
                  [i \in 1..Len(subAlbums) |-> SubAlbumEntry(subAlbums[i])]

\* An index document is written for a directory of which two images of the
\* same time arrived in the opposite of their name order.
C4_Witness ==
    \E d \in DOMAIN html :
        \E i, j \in 1..Len(received[d]) :
              /\ i < j
              /\ received[d][i].DateTime = received[d][j].DateTime
              /\ Compare(received[d][i].Name, received[d][j].Name) > 0

(***************************************************************************)
(* C5, as claimed: the images of an index document are in ascending order  *)
(* of capture time, the images without capture time after all others, and  *)
(* in ascending order of name among equal or equally absent times.         *)
(***************************************************************************)
IsImg(e) == e.kind = "img"

\* The names of the images of the index document of d, in its order.
RenderedImageNames(d) ==
    LET imgs == SelectSeq(html[d].images, IsImg)
    IN  [i \in 1..Len(imgs) |-> imgs[i].name]

C5_AbsentLast ==
    \A d \in DOMAIN html :
        LET names == RenderedImageNames(d)
        IN  \A i, j \in 1..Len(names) :
                i < j =>
                    LET t == files[d][names[i]]
                        u == files[d][names[j]]
                    IN  \/ t # PastTime /\ u = PastTime
                        \/ t # PastTime /\ u # PastTime /\ t < u
                        \/ t = u /\ Compare(names[i], names[j]) < 0

(***************************************************************************)
(* C5, amended: the images of an index document are in ascending order of  *)
(* capture time, the images without capture time BEFORE all others, and in *)
(* ascending order of name among equal or equally absent times.            *)
(***************************************************************************)
C5_AbsentFirst ==
    \A d \in DOMAIN html :
        LET names == RenderedImageNames(d)
        IN  /\ Len(names) = Cardinality(ImageNamesOf(d))
            /\ \A i, j \in 1..Len(names) :
                i < j =>
                    LET t == files[d][names[i]]
                        u == files[d][names[j]]
                    IN  \/ t = PastTime /\ u # PastTime
                        \/ t # PastTime /\ u # PastTime /\ t < u
                        \/ t = u /\ Compare(names[i], names[j]) < 0

\* The scenario: a.jpeg is dated, b.jpg is not, and the index document of
\* their directory lists b.jpg, then a.jpeg.
C5_Witness ==
    /\ Root \in DOMAIN html
    /\ NameA \in DOMAIN files[Root] /\ files[Root][NameA] # PastTime
    /\ NameB \in DOMAIN files[Root] /\ files[Root][NameB] = PastTime
    /\ RenderedImageNames(Root) = <<NameB, NameA>>

(***************************************************************************)
(* C6: when processImages returns for a directory, every worker of the     *)
(* directory has delivered its result, and the slice returned holds one    *)
(* Image per image name of the directory: as many as names, each name once.*)
(***************************************************************************)
C6_CollectsAll ==
    [][\A d \in (DOMAIN received') \ (DOMAIN received) :
          /\ DOMAIN workers = ImageNamesOf(d)
          /\ \A n \in DOMAIN workers : workers[n].pc = "done"
          /\ Len(received'[d]) = Cardinality(ImageNamesOf(d))
          /\ {received'[d][i].Name : i \in 1..Len(received'[d])} = ImageNamesOf(d)
      ]_vars

\* processImages returned three Images in an order that is not the order
\* of the names it was given.
C6_Witness ==
    \E d \in DOMAIN received :
        /\ Len(received[d]) = 3
        /\ Compare(received[d][1].Name, received[d][3].Name) > 0

(***************************************************************************)
(* C7: in every index document each date string of the directory's images  *)
(* has one heading, the headings are in the order in which their dates     *)
(* first occur among the images, and every image follows the heading of    *)
(* its own date, with no other heading in between.                         *)
(***************************************************************************)
C7_DateGroups ==
    \A d \in DOMAIN html :
        LET doc == html[d].images
            H == {k \in 1..Len(doc) : doc[k].kind = "h2"}
            I == {k \in 1..Len(doc) : doc[k].kind = "img"}
            IdOf(k) == dateStringToId(dateToString(files[d][doc[k].name]))
            First(id) == CHOOSE k \in I :
                            IdOf(k) = id /\ \A m \in I : IdOf(m) = id => k <= m
        IN  /\ \A h, g \in H : h # g => doc[h].id # doc[g].id
            /\ \A h \in H : \E k \in I : IdOf(k) = doc[h].id
            /\ \A h, g \in H : h < g => First(doc[h].id) < First(doc[g].id)
            /\ \A k \in I :
                  \E h \in H : /\ h < k
                               /\ \A g \in H : g < k => g <= h
                               /\ doc[h].id = IdOf(k)

\* An index document with two date groups, the unknown date among them,
\* and a group of two images of different times.
C7_Witness ==
    \E d \in DOMAIN html :
        LET doc == html[d].images
        IN  /\ Len(doc) = 5
            /\ doc[1].id = dateStringToId(UnknownDateString)
            /\ doc[3].kind = "h2"
            /\ doc[4].text # doc[5].text

(***************************************************************************)
(* C8, as claimed: after a run that completes, the output file of the name *)
(* of every selected image holds the bytes of the source image.            *)
(***************************************************************************)
C8_CopiesAreVerbatim ==
    status = "done" =>
        \A d \in dirs : \A n \in ImageNamesOf(d) :
            /\ <<d, n>> \in DOMAIN outFiles
            /\ outFiles[<<d, n>>] = SourceBytes(d, n)

(***************************************************************************)
(* C9: once a worker of a directory has hit a fatal condition the run has  *)
(* exited, and no Album is returned and no index document written for that *)
(* directory or any directory above it.                                    *)
(***************************************************************************)
WorkerCauses == {"read", "extension", "thumbnail", "copy"}

C9_FatalWorkerEndsRun ==
    fatal.cause \in WorkerCauses =>
        /\ status = "exit"
        /\ \A d \in dirs :
              IsPrefix(d, fatal.dir) => d \notin DOMAIN albums /\ d \notin DOMAIN html

\* The copy of an image of the root failed after another worker of the root
\* had written its copy and after a subdirectory's index document was written.
C9_Witness ==
    /\ status = "exit" /\ fatal.cause = "copy" /\ fatal.dir = Root
    /\ \E n \in ImageNamesOf(Root) : <<Root, n>> \in DOMAIN outFiles
    /\ \E c \in Children(Root) : c \in DOMAIN html

(***************************************************************************)
(* C10: an image whose EXIF time cannot be read is no reason to exit: its  *)
(* worker writes the thumbnail and the copy and reports the zero DateTime; *)
(* the image is counted in the Album of its directory and of every         *)
(* directory above, and the zero DateTime never becomes a MinTime or takes *)
(* part in a MaxTime.                                                      *)
(***************************************************************************)
C10_ExifFailureNotFatal ==
    /\ status = "exit" => fatal.cause \in WorkerCauses \cup {"index"}
    /\ \A d \in DOMAIN received : \A i \in 1..Len(received[d]) :
          LET image == received[d][i]
          IN  files[d][image.Name] = PastTime =>
                /\ image.DateTime = PastTime
                /\ image.Thumbnail = ThumbnailName(image.Name)
                /\ <<d, image.Thumbnail>> \in DOMAIN outFiles
                /\ <<d, image.Name>> \in DOMAIN outFiles
    /\ \A d \in DOMAIN albums :
          /\ albums[d].NumImages = SubtreeCount(d)
          /\ albums[d].MinTime # PastTime
          /\ SubtreeTimes(d) = {} =>
                albums[d].MinTime = FutureTime /\ albums[d].MaxTime = PastTime

\* A run completes in which a subdirectory's only image has no EXIF time,
\* the root has a dated image, and the root's Album counts both.
C10_Witness ==
    /\ status = "done"
    /\ \E c \in Children(Root) :
          /\ NameA \in DOMAIN files[c] /\ files[c][NameA] = PastTime
          /\ html[c].images[1].id = dateStringToId(UnknownDateString)
          /\ albums[c].MinTime = FutureTime
    /\ albums[Root].NumImages = 2
    /\ albums[Root].MinTime = albums[Root].MaxTime
    /\ albums[Root].MinTime \in 1..MaxT

(***************************************************************************)
(* C11: while a worker of a directory's batch has not finished, createAlbum *)
(* stays in processImages of that directory: it starts no other batch,     *)
(* enters or leaves no directory, and writes no index document.            *)
(***************************************************************************)
BatchRunning == \E n \in DOMAIN workers : workers[n].pc # "done"

C11_OneBatchAtATime ==
    [][(BatchRunning /\ status' # "exit") =>
          /\ top.pc = "collect"
          /\ Len(stack') = Len(stack)
          /\ top'.inputDir = top.inputDir
          /\ top'.pc = "collect"
          /\ DOMAIN workers' = DOMAIN workers
          /\ html' = html
      ]_vars

\* A worker of the root has finished and another has not, after the batch
\* of a subdirectory was collected and its index document written.
C11_Witness ==
    /\ \E n, m \in DOMAIN workers :
          workers[n].pc = "done" /\ workers[m].pc = "start"
    /\ top.inputDir = Root
    /\ \E c \in Children(Root) :
          c \in DOMAIN html /\ Len(received[c]) = 1

(***************************************************************************)
(* C12: within one batch the output paths are pairwise distinct: the       *)
(* thumbnail and the copy of an image are written by no other worker, and  *)
(* none of them is the index document.                                     *)
(***************************************************************************)
\* "index.html" (line 251)
IndexName == <<105, 110, 100, 101, 120, Dot, 104, 116, 109, 108>>

\* The names a worker writes in the output directory: the thumbnail (line
\* 142), which a name without a separator never reaches, and the copy
\* (line 176).
WritePaths(imageName) ==
    IF HasExtension(imageName)
    THEN {ThumbnailName(imageName), imageName}
    ELSE {imageName}

C12_DisjointPaths ==
    \A n \in DOMAIN workers :
        /\ IndexName \notin WritePaths(n)
        /\ \A m \in DOMAIN workers \ {n} : WritePaths(n) \cap WritePaths(m) = {}

(***************************************************************************)
(* C13: the index document of a directory is written after the index       *)
(* documents of all the directories below it and after all its own workers *)
(* have delivered; after the root's index document nothing is written.     *)
(***************************************************************************)
C13_IndexOrder ==
    [][/\ \A d \in (DOMAIN html') \ (DOMAIN html) :
             /\ Subtree(d) \ {d} \subseteq DOMAIN html
             /\ d = top.inputDir
             /\ \A n \in DOMAIN workers : workers[n].pc = "done"
             /\ Len(top.images) = Cardinality(ImageNamesOf(d))
             /\ ch = <<>>
       /\ Root \in DOMAIN html => (html' = html /\ outFiles' = outFiles)
      ]_vars

\* The run is over for a tree three directories deep, each directory with
\* an image: three batches were collected and three documents written.
C13_Witness ==
    /\ status = "done"
    /\ \E d \in dirs : Len(d) = 2
    /\ \A d \in dirs : d \in DOMAIN html /\ Len(received[d]) = 1

(***************************************************************************)
(* C14: a worker that is about to deliver finds room in the channel, and   *)
(* every run comes to an end: it returns from the root's createAlbum or    *)
(* stops on a fatal condition; it never waits forever.                     *)
(***************************************************************************)
DeliveryNeverBlocks ==
    \A n \in DOMAIN workers :
        workers[n].pc = "copy" => Len(ch) < ChanCap(top)

C14_Terminates ==
    /\ [](Running => DeliveryNeverBlocks)
    /\ [](Running => ENABLED Next)
    /\ <>(status = "done" \/ status = "exit")

\* All workers of a batch of two have delivered before the first receive:
\* the channel is full.
C14_Witness ==
    /\ Running /\ Len(ch) = 2 /\ top.images = <<>>
    /\ \A n \in DOMAIN workers : workers[n].pc = "done"

(***************************************************************************)
(* C15: the subalbums of an index document are in ascending order of       *)
(* MinTime, the subalbums without any capture time after all others, and   *)
(* in ascending order of name among equal or equally absent MinTimes.      *)
(***************************************************************************)
C15_SubAlbumOrder ==
    \A d \in DOMAIN html :
        LET subs == html[d].subAlbums
            MinOf(i) == albums[Append(d, subs[i].Name)].MinTime
        IN  /\ {Append(d, subs[i].Name) : i \in 1..Len(subs)} =
                  {c \in Children(d) : SubtreeCount(c) > 0}
            /\ \A i, j \in 1..Len(subs) :
                  i < j =>
                     \/ MinOf(i) # FutureTime /\ MinOf(j) = FutureTime
                     \/ MinOf(i) < MinOf(j)
                     \/ /\ MinOf(i) = MinOf(j)
                        /\ Compare(subs[i].Name, subs[j].Name) < 0

\* The index document of the root lists "sub", which has a capture time,
\* before "old", which has images and no capture time.
C15_Witness ==
    /\ Root \in DOMAIN html
    /\ Len(html[Root].subAlbums) = 2
    /\ html[Root].subAlbums[1].Name = NameSub
    /\ albums[<<NameSub>>].MinTime # FutureTime
    /\ albums[<<NameOld>>].MinTime = FutureTime

(***************************************************************************)
(* C16: every file name selected as an image has an extension separator,   *)
(* and no run ends on "imageName missing extension".                       *)
(***************************************************************************)
C16_ExtensionAlwaysPresent ==
    /\ \A i \in 1..Len(stack) :
          \A k \in 1..Len(stack[i].imageNames) :
              HasExtension(stack[i].imageNames[k])
    /\ fatal.cause # "extension"

(***************************************************************************)
(* C17: a returned Album without images has neither MinTime nor MaxTime    *)
(* and is in no subalbum list of its parent; a returned Album with images  *)
(* and both times has MinTime <= MaxTime.                                  *)
(***************************************************************************)
C17_AlbumInvariants ==
    \A d \in DOMAIN albums :
        LET a == albums[d]
        IN  /\ a.NumImages = 0 =>
                 /\ a.MinTime = FutureTime /\ a.MaxTime = PastTime
                 /\ dateToString(a.MinTime) = UnknownDateString
                 /\ dateToString(a.MaxTime) = UnknownDateString
                 /\ d # Root =>
                      /\ \A i \in 1..Len(stack) :
                            stack[i].inputDir = Parent(d) =>
                               \A k \in 1..Len(stack[i].subAlbums) :
                                   stack[i].subAlbums[k].Name # a.Name
                      /\ Parent(d) \in DOMAIN html =>
                            \A k \in 1..Len(html[Parent(d)].subAlbums) :
                                html[Parent(d)].subAlbums[k].Name # a.Name
            /\ (a.NumImages > 0 /\ a.MinTime # FutureTime /\ a.MaxTime # PastTime)
                  => a.MinTime <= a.MaxTime

\* The run is over; a subdirectory without images returned an Album, the
\* root lists only its other subdirectory, and the root's times differ.
C17_Witness ==
    /\ status = "done"
    /\ \E c \in Children(Root) : albums[c].NumImages = 0
    /\ Len(html[Root].subAlbums) = 1
    /\ albums[Root].MinTime # FutureTime
    /\ albums[Root].MinTime < albums[Root].MaxTime

(***************************************************************************)
(* C18: an index document has date links if and only if the directory's    *)
(* own images have more than one date string; the links are the headings'  *)
(* ids and texts, in the headings' order; the link of the images without   *)
(* date has the id "unknown-date" and the text "Unknown Date".             *)
(***************************************************************************)
IsHeading(e) == e.kind = "h2"

\* The date strings of the images of d.
DateStringsOf(d) == {dateToString(files[d][n]) : n \in ImageNamesOf(d)}

C18_DateLinks ==
    \A d \in DOMAIN html :
        LET links == html[d].dateLinks
            heads == SelectSeq(html[d].images, IsHeading)
        IN  /\ links # <<>> <=> Cardinality(DateStringsOf(d)) > 1
            /\ links # <<>> =>
                  /\ Len(links) = Cardinality(DateStringsOf(d))
                  /\ links = [i \in 1..Len(heads) |->
                                [id |-> heads[i].id, text |-> heads[i].text]]
                  /\ \A i \in 1..Len(links) :
                        /\ links[i].id # UnknownDateString
                        /\ links[i].text # UnknownDateString
                  /\ UnknownDateString \in DateStringsOf(d) =>
                        \E i \in 1..Len(links) :
                            /\ links[i].id = <<"unknown-date", 0>>
                            /\ links[i].text = <<"Unknown Date", 0>>

\* An index document of three images of two dates, one of them unknown,
\* has two links, the first to the images without date.
C18_Witness ==
    \E d \in DOMAIN html :
        /\ Cardinality(ImageNamesOf(d)) = 3
        /\ Len(html[d].dateLinks) = 2
        /\ html[d].dateLinks[1].id = <<"unknown-date", 0>>

(***************************************************************************)
(* C19: the output directory of a directory whose subtree has an image     *)
(* exists whenever its workers are launched and whenever its index         *)
(* document is about to be written or has been written, so that the write  *)
(* of the index document never fails for a missing directory; and every    *)
(* file written lies in an output directory that exists.                   *)
(***************************************************************************)
C19_OutputDirExists ==
    /\ \A i \in 1..Len(stack) :
          LET frame == stack[i]
          IN  (frame.pc = "collect" /\ SubtreeCount(frame.inputDir) > 0) =>
                 /\ frame.imageNames # <<>> => frame.inputDir \in outDirs
                 /\ Len(frame.images) = Len(frame.imageNames) =>
                       frame.inputDir \in outDirs
    /\ (Running /\ DOMAIN workers # {}) => top.inputDir \in outDirs
    /\ \A d \in DOMAIN html : d \in outDirs
    /\ \A key \in DOMAIN outFiles : key[1] \in outDirs
    /\ (status = "exit" /\ fatal.cause = "index") => SubtreeCount(fatal.dir) = 0

\* The output location was empty; only a directory two levels below the
\* root has an image; the run is over and wrote all three index documents.
C19_Witness ==
    /\ status = "done" /\ existed = {}
    /\ \E d \in dirs :
          /\ Len(d) = 2 /\ ImageNamesOf(d) # {}
          /\ ImageNamesOf(Parent(d)) = {} /\ ImageNamesOf(Root) = {}
          /\ {d, Parent(d), Root} \subseteq DOMAIN html

=============================================================================
